---- MODULE Spec2Model ----
(***************************************************************************)
(* Contact repository of api-contact-form: the five operations of          *)
(* repositories/contact_repository.go over the contact_messages table of   *)
(* models.Contact, with the statements the ORM issues for them (gorm.io/   *)
(* gorm v2: Create, Find, First, Save, Delete on a model with a            *)
(* gorm.DeletedAt column) and the PostgreSQL behaviour they meet (serial   *)
(* primary key, VARCHAR(n) assignment, unique primary key).                *)
(*                                                                         *)
(* created_at is left out of the rows: it is written on insert and no      *)
(* operation of the repository reads or filters on it.                     *)
(***************************************************************************)
EXTENDS Integers, FiniteSets, Sequences, TLC

(* ------------------------------ bounds --------------------------------- *)
\* primary keys that calls may name, and the cap of the serial sequence
MaxId == 2
\* readings of the store's clock (gorm NowFunc): 1..MaxTime
MaxTime == 2

(* ---------------------------- column widths ---------------------------- *)
FullNameWidth == 100
EmailWidth == 100
PhoneWidth == 20

(* ------------------------------ values --------------------------------- *)
\* deleted_at IS NULL / gorm.DeletedAt{Valid: false}
NULL == -1
\* the zero time.Time and the zero uint
ZeroTime == 0
ZeroID == 0

Ids == 1 .. MaxId
Times == 1 .. MaxTime

\* A Go string, kept as its text without the trailing spaces, its length and
\* the number of trailing spaces in that length.
Str(txt, len, pad) == [txt |-> txt, len |-> len, pad |-> pad]

\* errors
nil == "nil"
ErrRecordNotFound == "record not found"
ErrMissingWhereClause == "WHERE conditions required"
ErrDuplicatedKey == "duplicate key value violates unique constraint"
ErrValueTooLong == "value too long for type character varying"
ErrConnection == "connection refused"

(* ------------------------------ inputs --------------------------------- *)
Ann ==
    [FullName |-> Str("Ann Lee", 7, 0), Email |-> Str("ann@example.com", 15, 0),
     Phone |-> Str("555-0100", 8, 0), Message |-> Str("Hi", 2, 0)]
Bob ==
    [FullName |-> Str("Bob Ray", 7, 0), Email |-> Str("bob@example.com", 15, 0),
     Phone |-> Str("555-0199", 8, 0), Message |-> Str("", 0, 0)]
\* a phone number of 21 digits
LongPhone == [Ann EXCEPT !.Phone = Str("555010055501005550100", 21, 0)]
\* a phone number of 20 digits followed by one space
PaddedPhone == [Ann EXCEPT !.Phone = Str("55501005550100555010", 21, 1)]

Payloads == {Ann, Bob, LongPhone, PaddedPhone}

\* models.Contact as a caller builds it
Contact(id, p, ua, da) ==
    [ID |-> id, FullName |-> p.FullName, Email |-> p.Email, Phone |-> p.Phone,
     Message |-> p.Message, UpdatedAt |-> ua, DeletedAt |-> da]

\* The Contact values calls are made with: every id (the zero id included),
\* every payload with the timestamps unset, and the first payload also with
\* an UpdatedAt or a DeletedAt the caller has set.
Contacts ==
    {Contact(id, p, ZeroTime, NULL) : id \in {ZeroID} \cup Ids, p \in Payloads}
        \cup {Contact(id, Ann, MaxTime, NULL) : id \in {ZeroID} \cup Ids}
        \cup {Contact(id, Ann, ZeroTime, 1) : id \in {ZeroID} \cup Ids}

(* --------------------------- the table --------------------------------- *)
VARIABLES
    table,  \* the rows of contact_messages
    seq,    \* last value of the serial sequence behind column id
    now,    \* last reading of the clock
    ret,    \* what the last repository call returned to its caller
    db,     \* the statement, Error and RowsAffected of the last *gorm.DB
    start,  \* concurrent callers: the table they were started on
    calls,  \* concurrent callers: the call each of them makes
    pc,     \* concurrent callers: where each of them is in its call
    held,   \* concurrent callers: the struct of a Save between its statements
    passed  \* concurrent callers: those whose Save another statement ran inside

callers == <<start, calls, pc, held, passed>>
vars == <<table, seq, now, ret, db, start, calls, pc, held, passed>>

\* PostgreSQL assignment of a string to VARCHAR(n): an over-length value is an
\* error unless the excess characters are all spaces, which are cut off.
Fits(s, n) == s.len - s.pad <= n
Varchar(s, n) ==
    IF s.len <= n THEN s ELSE Str(s.txt, n, n - (s.len - s.pad))

FitsColumns(c) ==
    /\ Fits(c.FullName, FullNameWidth)
    /\ Fits(c.Email, EmailWidth)
    /\ Fits(c.Phone, PhoneWidth)

\* (mutant) the name is written to the e-mail column
ToRowMixed(c) ==
    [id |-> c.ID,
     full_name |-> Varchar(c.FullName, FullNameWidth),
     email_address |-> Varchar(c.FullName, EmailWidth),
     phone_number |-> Varchar(c.Phone, PhoneWidth),
     message_text |-> c.Message,
     updated_at |-> c.UpdatedAt,
     deleted_at |-> c.DeletedAt]

\* the row a Contact value is written as (Message is TEXT: no width)
ToRow(c) ==
    [id |-> c.ID,
     full_name |-> Varchar(c.FullName, FullNameWidth),
     email_address |-> Varchar(c.Email, EmailWidth),
     phone_number |-> Varchar(c.Phone, PhoneWidth),
     message_text |-> c.Message,
     updated_at |-> c.UpdatedAt,
     deleted_at |-> c.DeletedAt]

\* gorm's soft-delete scope, added to every query, update and delete of a
\* model with a gorm.DeletedAt field
SoftDeleteQueryClause(row) == row.deleted_at = NULL

PrimaryKeys(tbl) == {r.id : r \in tbl}

\* the clock never runs backwards: a reading is the last one or the next
Readings(t) == {u \in Times : t <= u /\ u <= t + 1}

(* ----------------------- statements of the ORM ------------------------- *)
\* Every statement yields what its *gorm.DB holds afterwards and what it did:
\* the statement, Error and RowsAffected; the table and sequence it leaves;
\* the caller's struct as the callbacks leave it; the rows scanned.
\* up = FALSE: the store cannot be reached and the statement has no effect.
Result(stmt, err, tbl, sq, out, rows, n) ==
    [stmt |-> stmt, err |-> err, table |-> tbl, seq |-> sq, out |-> out,
     rows |-> rows, n |-> n]

\* db.Create(contact): INSERT INTO contact_messages (...) VALUES (...)
\* RETURNING id.  A zero ID is left to the sequence, a zero UpdatedAt is set
\* to the current time, DeletedAt is written as the caller has it.
DBCreate(tbl, sq, c, t, up) ==
    LET stamped == [c EXCEPT !.UpdatedAt = IF @ = ZeroTime THEN t ELSE @]
        auto == c.ID = ZeroID
        id == IF auto THEN sq + 1 ELSE c.ID
        sq1 == IF auto THEN sq + 1 ELSE sq
        inserted == [stamped EXCEPT !.ID = id]
    IN  IF ~up THEN Result("INSERT", ErrConnection, tbl, sq, stamped, {}, 0)
        ELSE IF ~FitsColumns(c)
             THEN Result("INSERT", ErrValueTooLong, tbl, sq, stamped, {}, 0)
        ELSE IF id \in PrimaryKeys(tbl)
             THEN Result("INSERT", ErrDuplicatedKey, tbl, sq1, stamped, {}, 0)
        ELSE Result("INSERT", nil, tbl \cup {ToRow(inserted)}, sq1, inserted, {}, 1)

\* (mutant) the query runs without the soft-delete scope
DBFindUnscoped(tbl, up) ==
    IF ~up THEN Result("SELECT", ErrConnection, tbl, 0, {}, {}, 0)
    ELSE Result("SELECT", nil, tbl, 0, {}, tbl, Cardinality(tbl))

\* db.Find(&contacts): SELECT * FROM contact_messages WHERE deleted_at IS NULL
DBFind(tbl, up) ==
    IF ~up THEN Result("SELECT", ErrConnection, tbl, 0, {}, {}, 0)
    ELSE LET found == {r \in tbl : SoftDeleteQueryClause(r)}
         IN  Result("SELECT", nil, tbl, 0, {}, found, Cardinality(found))

\* (mutant) the lookup runs without the soft-delete scope
DBFirstUnscoped(tbl, id, up) ==
    IF ~up THEN Result("SELECT", ErrConnection, tbl, 0, {}, {}, 0)
    ELSE LET found == {r \in tbl : r.id = id}
         IN  IF found = {} THEN Result("SELECT", ErrRecordNotFound, tbl, 0, {}, {}, 0)
             ELSE Result("SELECT", nil, tbl, 0, {}, found, 1)

\* db.First(&contact, id): SELECT * FROM contact_messages WHERE id = $1 AND
\* deleted_at IS NULL ORDER BY id LIMIT 1; no row is ErrRecordNotFound.
DBFirst(tbl, id, up) ==
    IF ~up THEN Result("SELECT", ErrConnection, tbl, 0, {}, {}, 0)
    ELSE LET found == {r \in tbl : r.id = id /\ SoftDeleteQueryClause(r)}
         IN  IF found = {} THEN Result("SELECT", ErrRecordNotFound, tbl, 0, {}, {}, 0)
             ELSE Result("SELECT", nil, tbl, 0, {}, found, 1)

\* (mutant) the UPDATE is not keyed by the primary key
UpdateWhereNoKey(r, c) == SoftDeleteQueryClause(r)

\* the WHERE of the UPDATE that Save issues: the primary key of the struct
\* and the soft-delete scope
UpdateWhere(r, c) == r.id = c.ID /\ SoftDeleteQueryClause(r)

\* the UPDATE of Save: every column (Select "*") but the primary key, with
\* updated_at set to the current time, on the rows of UpdateWhere.
UpdateExec(tbl, sq, c, t, up) ==
    LET stamped == [c EXCEPT !.UpdatedAt = t]
        hit == {r \in tbl : UpdateWhere(r, c)}
    IN  IF ~up THEN Result("UPDATE", ErrConnection, tbl, sq, stamped, {}, 0)
        ELSE IF ~FitsColumns(c)
             THEN Result("UPDATE", ErrValueTooLong, tbl, sq, stamped, {}, 0)
        ELSE Result("UPDATE", nil,
                    (tbl \ hit) \cup {[ToRow(stamped) EXCEPT !.id = r.id] : r \in hit},
                    sq, stamped, {}, Cardinality(hit))

\* the fallback of Save: INSERT ... ON CONFLICT (id) DO UPDATE SET every
\* column but the primary key = excluded.column, updated_at = current time.
UpsertExec(tbl, sq, c, t, up) ==
    LET stamped == [c EXCEPT !.UpdatedAt = IF @ = ZeroTime THEN t ELSE @]
        conflict == {r \in tbl : r.id = c.ID}
    IN  IF ~up THEN Result("UPSERT", ErrConnection, tbl, sq, stamped, {}, 0)
        ELSE IF ~FitsColumns(c)
             THEN Result("UPSERT", ErrValueTooLong, tbl, sq, stamped, {}, 0)
        ELSE IF conflict = {}
             THEN Result("UPSERT", nil, tbl \cup {ToRow(stamped)}, sq, stamped, {}, 1)
        ELSE Result("UPSERT", nil,
                    (tbl \ conflict) \cup {[ToRow(stamped) EXCEPT !.updated_at = t]},
                    sq, stamped, {}, 1)

\* db.Save(contact): a zero primary key runs the create callbacks; otherwise
\* the UPDATE at t1, and when that succeeds with RowsAffected = 0, the upsert
\* at t2.
DBSave(tbl, sq, c, t1, t2, up1, up2) ==
    IF c.ID = ZeroID THEN DBCreate(tbl, sq, c, t1, up1)
    ELSE LET u == UpdateExec(tbl, sq, c, t1, up1)
         IN  IF u.err = nil /\ u.n = 0
             THEN UpsertExec(tbl, sq, u.out, t2, up2)
             ELSE u

\* (mutant) the soft delete runs without the soft-delete scope
DeleteWhereUnscoped(r, c) == r.id = c.ID

\* (mutant) the soft delete is not keyed by the primary key
DeleteWhereNoKey(r, c) == SoftDeleteQueryClause(r)

\* the WHERE of the soft delete: the primary key of the struct and the
\* soft-delete scope
DeleteWhere(r, c) == r.id = c.ID /\ SoftDeleteQueryClause(r)

\* (mutant) the rows are removed: DELETE FROM contact_messages WHERE id = $1
DBDeleteHard(tbl, sq, c, t, up) ==
    LET stamped == [c EXCEPT !.DeletedAt = t]
        hit == {r \in tbl : r.id = c.ID}
    IN  IF c.ID = ZeroID
        THEN Result("DELETE", ErrMissingWhereClause, tbl, sq, stamped, {}, 0)
        ELSE IF ~up THEN Result("DELETE", ErrConnection, tbl, sq, stamped, {}, 0)
        ELSE Result("DELETE", nil, tbl \ hit, sq, stamped, {}, Cardinality(hit))

\* db.Delete(contact) on a model with gorm.DeletedAt: UPDATE contact_messages
\* SET deleted_at = now WHERE id = $1 AND deleted_at IS NULL.  With a zero
\* primary key only the scope is left in the WHERE and gorm refuses the
\* statement with ErrMissingWhereClause.
DBDelete(tbl, sq, c, t, up) ==
    LET stamped == [c EXCEPT !.DeletedAt = t]
        hit == {r \in tbl : DeleteWhere(r, c)}
    IN  IF c.ID = ZeroID
        THEN Result("DELETE", ErrMissingWhereClause, tbl, sq, stamped, {}, 0)
        ELSE IF ~up THEN Result("DELETE", ErrConnection, tbl, sq, stamped, {}, 0)
        ELSE Result("DELETE", nil,
                    (tbl \ hit) \cup {[r EXCEPT !.deleted_at = t] : r \in hit},
                    sq, stamped, {}, Cardinality(hit))

(* ------------------------ the repository ------------------------------- *)
Returned(op, arg, id, err, rows) ==
    [op |-> op, arg |-> arg, id |-> id, err |-> err, rows |-> rows]

Status(res) == [stmt |-> res.stmt, err |-> res.err, n |-> res.n]

\* if err := r.db.Find(&contacts).Error; err != nil { return nil, err }
\* return contacts, nil
FindAllReturn(res) ==
    IF res.err # nil THEN Returned("FindAll", ZeroID, ZeroID, res.err, {})
    ELSE Returned("FindAll", ZeroID, ZeroID, nil, res.rows)

\* (mutant) the error of the lookup is dropped
FindByIDReturnDropsError(id, res) ==
    Returned("FindByID", id, id, nil, res.rows)

\* if err := r.db.First(&contact, id).Error; err != nil { return nil, err }
\* return &contact, nil
FindByIDReturn(id, res) ==
    IF res.err # nil THEN Returned("FindByID", id, ZeroID, res.err, {})
    ELSE Returned("FindByID", id, id, nil, res.rows)

Init ==
    /\ table = {}
    /\ seq = 0
    /\ now = 1
    /\ ret = Returned("NewContactRepository", ZeroID, ZeroID, nil, {})
    /\ db = [stmt |-> "none", err |-> nil, n |-> 0]
    /\ start = {}
    /\ calls = <<>>
    /\ pc = <<>>
    /\ held = <<>>
    /\ passed = {}

\* func (r *contactRepository) Create(contact *models.Contact) error
Create(c, t, up) ==
    /\ c.ID = ZeroID => seq < MaxId
    /\ \E res \in {DBCreate(table, seq, c, t, up)} :
           /\ table' = res.table
           /\ seq' = res.seq
           /\ db' = Status(res)
           /\ ret' = Returned("Create", c.ID, res.out.ID, res.err, {})
    /\ now' = t
    /\ UNCHANGED callers

\* func (r *contactRepository) FindAll() ([]models.Contact, error)
FindAll(up) ==
    /\ \E res \in {DBFind(table, up)} :
           /\ db' = Status(res)
           /\ ret' = FindAllReturn(res)
    /\ UNCHANGED <<table, seq, now>>
    /\ UNCHANGED callers

\* func (r *contactRepository) FindByID(id uint) (*models.Contact, error)
FindByID(id, up) ==
    /\ \E res \in {DBFirst(table, id, up)} :
           /\ db' = Status(res)
           /\ ret' = FindByIDReturn(id, res)
    /\ UNCHANGED <<table, seq, now>>
    /\ UNCHANGED callers

\* func (r *contactRepository) Update(contact *models.Contact) error
\* (the clock is read at t1 for the first statement of Save and at t2 for
\* its second, if it comes to that)
Update(c, t1, t2, up1, up2) ==
    /\ c.ID = ZeroID => seq < MaxId
    /\ \E res \in {DBSave(table, seq, c, t1, t2, up1, up2)} :
           /\ table' = res.table
           /\ seq' = res.seq
           /\ db' = Status(res)
           /\ ret' = Returned("Update", c.ID, res.out.ID, res.err, {})
           /\ now' = IF res.stmt = "UPSERT" THEN t2 ELSE t1
    /\ UNCHANGED callers

\* func (r *contactRepository) Delete(contact *models.Contact) error
Delete(c, t, up) ==
    /\ \E res \in {DBDelete(table, seq, c, t, up)} :
           /\ table' = res.table
           /\ seq' = res.seq
           /\ db' = Status(res)
           /\ ret' = Returned("Delete", c.ID, res.out.ID, res.err, {})
    /\ now' = t
    /\ UNCHANGED callers

Next ==
    \/ \E c \in Contacts, t \in Readings(now) : Create(c, t, TRUE)
    \/ \E c \in Contacts : Create(c, now, FALSE)
    \/ \E up \in BOOLEAN : FindAll(up)
    \/ \E id \in {ZeroID} \cup Ids, up \in BOOLEAN : FindByID(id, up)
    \/ \E c \in Contacts, t1 \in Readings(now) :
            \E t2 \in Readings(t1) : Update(c, t1, t2, TRUE, TRUE)
    \/ \E c \in Contacts, up1 \in BOOLEAN : Update(c, now, now, up1, FALSE)
    \/ \E c \in Contacts, t \in Readings(now) : Delete(c, t, TRUE)
    \/ \E c \in Contacts : Delete(c, now, FALSE)

Spec == Init /\ [][Next]_vars

(* ----------------------- concurrent callers ---------------------------- *)
\* One caller per primary key, each making one call on its own key through
\* the shared *gorm.DB (config.DB).  The store runs one statement at a time;
\* a Save is two statements, and other callers' statements may run between
\* them.  The store is reachable throughout.
Procs == Ids

\* rows as a Create at time 1 leaves them, and as a Delete at time 1 then does
StartRows == {ToRow(Contact(id, Bob, 1, da)) : id \in Ids, da \in {NULL, 1}}
StartTables ==
    {tbl \in SUBSET StartRows : \A r, q \in tbl : r.id = q.id => r = q}

\* the calls a caller may make on its key: Create and Update with the first
\* payload, DeletedAt unset or set, and Delete
CallsOn(p) ==
    {[op |-> o, c |-> Contact(p, Ann, ZeroTime, da)] :
        o \in {"Create", "Update"}, da \in {NULL, 1}}
        \cup {[op |-> "Delete", c |-> Contact(p, Ann, ZeroTime, NULL)]}

ConcInit ==
    /\ start \in StartTables
    /\ table = start
    /\ seq = 0
    /\ now = 1
    /\ ret = Returned("NewContactRepository", ZeroID, ZeroID, nil, {})
    /\ db = [stmt |-> "none", err |-> nil, n |-> 0]
    /\ calls \in [Procs -> UNION {CallsOn(p) : p \in Procs}]
    /\ \A p \in Procs : calls[p] \in CallsOn(p)
    /\ pc = [p \in Procs |-> "call"]
    /\ held = [p \in Procs |-> calls[p].c]
    /\ passed = {}

\* the other callers that are between the two statements of a Save
Waiting(p) == {q \in Procs \ {p} : pc[q] = "upsert"}

\* the caller's statement has run and its call returns
Finish(p, res) ==
    /\ table' = res.table
    /\ seq' = res.seq
    /\ db' = Status(res)
    /\ ret' = Returned(calls[p].op, calls[p].c.ID, res.out.ID, res.err, {})
    /\ pc' = [pc EXCEPT ![p] = "done"]
    /\ held' = [held EXCEPT ![p] = res.out]
    /\ passed' = passed \cup Waiting(p)

CreateStep(p, t) ==
    /\ pc[p] = "call" /\ calls[p].op = "Create"
    /\ Finish(p, DBCreate(table, seq, calls[p].c, t, TRUE))
    /\ now' = t
    /\ UNCHANGED <<start, calls>>

DeleteStep(p, t) ==
    /\ pc[p] = "call" /\ calls[p].op = "Delete"
    /\ Finish(p, DBDelete(table, seq, calls[p].c, t, TRUE))
    /\ now' = t
    /\ UNCHANGED <<start, calls>>

\* the UPDATE of Save; with RowsAffected = 0 the caller goes on to the upsert
SaveUpdateStep(p, t) ==
    /\ pc[p] = "call" /\ calls[p].op = "Update"
    /\ \E u \in {UpdateExec(table, seq, calls[p].c, t, TRUE)} :
           IF u.err = nil /\ u.n = 0
           THEN /\ pc' = [pc EXCEPT ![p] = "upsert"]
                /\ held' = [held EXCEPT ![p] = u.out]
                /\ db' = Status(u)
                /\ passed' = passed \cup Waiting(p)
                /\ UNCHANGED <<table, seq, ret>>
           ELSE Finish(p, u)
    /\ now' = t
    /\ UNCHANGED <<start, calls>>

SaveUpsertStep(p, t) ==
    /\ pc[p] = "upsert"
    /\ Finish(p, UpsertExec(table, seq, held[p], t, TRUE))
    /\ now' = t
    /\ UNCHANGED <<start, calls>>

ConcNext ==
    \/ \E p \in Procs, t \in Readings(now) : CreateStep(p, t)
    \/ \E p \in Procs, t \in Readings(now) : DeleteStep(p, t)
    \/ \E p \in Procs, t \in Readings(now) : SaveUpdateStep(p, t)
    \/ \E p \in Procs, t \in Readings(now) : SaveUpsertStep(p, t)

ConcSpec == ConcInit /\ [][ConcNext]_vars

\* what the claim compares of a table: the user's columns and whether
\* deleted_at is null
Visible(tbl) ==
    {[id |-> r.id, full_name |-> r.full_name, email_address |-> r.email_address,
      phone_number |-> r.phone_number, message_text |-> r.message_text,
      deleted |-> r.deleted_at # NULL] : r \in tbl}

\* the table a call leaves when it runs alone, from its first statement to
\* its return
Alone(tbl, call) ==
    CASE call.op = "Create" -> DBCreate(tbl, 0, call.c, 1, TRUE).table
      [] call.op = "Update" -> DBSave(tbl, 0, call.c, 1, 1, TRUE, TRUE).table
      [] call.op = "Delete" -> DBDelete(tbl, 0, call.c, 1, TRUE).table

RECURSIVE OneAfterTheOther(_, _)
OneAfterTheOther(tbl, order) ==
    IF order = <<>> THEN tbl
    ELSE OneAfterTheOther(Alone(tbl, calls[Head(order)]), Tail(order))

Orders ==
    {o \in [1 .. Cardinality(Procs) -> Procs] : \A i, j \in DOMAIN o : o[i] = o[j] => i = j}

(* ------------------------------ claims --------------------------------- *)
\* the store answered the last call: no connection failure
Answered(r) == r.err # ErrConnection

Deleted(tbl) == {r \in tbl : r.deleted_at # NULL}
RowOf(tbl, id) == {r \in tbl : r.id = id}

\* C1: whenever FindAll has returned a result, it holds no record whose
\* deleted_at is non-null and every record of the table whose deleted_at is
\* null.
C1_FindAllIsTheLiveRows ==
    ret.op = "FindAll" /\ ret.err = nil =>
        /\ \A r \in ret.rows : r.deleted_at = NULL
        /\ \A r \in table : r.deleted_at = NULL => r \in ret.rows

\* FindAll has returned some rows of a table that also holds deleted ones
C1_Witness ==
    /\ ret.op = "FindAll" /\ ret.err = nil
    /\ ret.rows # {}
    /\ Deleted(table) # {}

\* C2: a FindByID(c.id) that follows a successful Delete(c) returns
\* ErrRecordNotFound and no record, and a FindAll that follows it returns no
\* record with id c.id (calls the store answers).
C2_DeletedIsNotFound ==
    [][ret.op = "Delete" /\ ret.err = nil /\ Answered(ret') =>
          /\ ret'.op = "FindByID" /\ ret'.arg = ret.arg =>
                ret'.err = ErrRecordNotFound /\ ret'.rows = {}
          /\ ret'.op = "FindAll" =>
                ret'.err = nil /\ RowOf(ret'.rows, ret.arg) = {}]_vars

\* FindByID has answered ErrRecordNotFound for an id whose row is in the
\* table, soft-deleted by a DELETE
C2_Witness ==
    /\ ret.op = "FindByID" /\ ret.err = ErrRecordNotFound
    /\ \E r \in RowOf(table, ret.arg) : r.deleted_at = now /\ r.updated_at < now

\* C3: no call removes a row: the set of primary keys in the table never
\* shrinks, and after a successful Delete(c) of a row that was in the table
\* the row is still there (an unscoped lookup finds it) with deleted_at set.
C3_NoRowIsRemoved ==
    [][/\ PrimaryKeys(table) \subseteq PrimaryKeys(table')
       /\ ret'.op = "Delete" /\ ret'.err = nil /\ RowOf(table, ret'.arg) # {} =>
             \E r \in RowOf(table', ret'.arg) : r.deleted_at # NULL]_vars

\* Delete has just soft-deleted a row (RowsAffected = 1) and the row is in
\* the table
C3_Witness ==
    /\ ret.op = "Delete" /\ ret.err = nil /\ db.n = 1
    /\ \E r \in RowOf(table, ret.arg) : r.deleted_at # NULL

\* C4: an Update(contact) that the store answers, when the contact carries
\* an id and no row with that id is in the table, returns ErrRecordNotFound
\* and adds no row.
C4_UpdateOfMissingIsNotFound ==
    [][ret'.op = "Update" /\ ret'.arg # ZeroID /\ RowOf(table, ret'.arg) = {}
          /\ ret'.err \notin {ErrConnection, ErrValueTooLong} =>
              ret'.err = ErrRecordNotFound /\ table' = table]_vars

\* "valid: all required fields set"
Valid(c) ==
    /\ c.FullName.len > 0
    /\ c.Email.len > 0
    /\ c.Phone.len > 0
    /\ c.Message.len > 0

\* FindByID(id) right after the step returns this record with c's four user
\* fields and a null deleted_at
ReadsBack(tbl, id, c) ==
    LET got == FindByIDReturn(id, DBFirst(tbl, id, TRUE))
    IN  /\ got.err = nil
        /\ \E r \in got.rows :
              /\ r.full_name = c.FullName
              /\ r.email_address = c.Email
              /\ r.phone_number = c.Phone
              /\ r.message_text = c.Message
              /\ r.deleted_at = NULL

\* C5 as claimed: for every valid Contact, a successful Create followed by
\* FindByID(returned id) returns the supplied user fields and a null
\* deleted_at.
C5_AsClaimed ==
    [][ret'.op = "Create" /\ ret'.err = nil =>
          \A c \in Contacts, t \in Times :
              Valid(c) /\ Create(c, t, TRUE) => ReadsBack(table', ret'.id, c)]_vars

\* the Contact has no DeletedAt and its strings are no longer than the
\* columns they go to
Storable(c) ==
    /\ c.DeletedAt = NULL
    /\ c.FullName.len <= FullNameWidth
    /\ c.Email.len <= EmailWidth
    /\ c.Phone.len <= PhoneWidth

\* C5 as amended: for every valid Contact whose DeletedAt is unset and whose
\* full_name, email and phone are no longer than their columns, a successful
\* Create followed by FindByID(returned id) returns the supplied user fields
\* and a null deleted_at.
C5_RoundTrip ==
    [][ret'.op = "Create" /\ ret'.err = nil =>
          \A c \in Contacts, t \in Times :
              Valid(c) /\ Storable(c) /\ Create(c, t, TRUE) =>
                  ReadsBack(table', ret'.id, c)]_vars

\* Create has stored the first payload under an id the sequence assigned,
\* and the row is not deleted
C5_Witness ==
    /\ ret.op = "Create" /\ ret.err = nil /\ ret.arg = ZeroID /\ ret.id = seq
    /\ \E r \in RowOf(table, ret.id) :
          r.phone_number = Ann.Phone /\ r.message_text = Ann.Message /\ r.deleted_at = NULL

\* rows with another primary key are the same before and after
OthersUnchanged(id, before, after) ==
    before \ RowOf(before, id) = after \ RowOf(after, id)

\* C6 as claimed: a successful Update(contact) of a row that is in the table
\* leaves every row with another id unchanged and makes the row's updated_at
\* strictly later than it was.
C6_AsClaimed ==
    [][ret'.op = "Update" /\ ret'.err = nil /\ RowOf(table, ret'.arg) # {} =>
          /\ OthersUnchanged(ret'.arg, table, table')
          /\ \A r \in RowOf(table, ret'.arg) :
                \E q \in RowOf(table', ret'.arg) : q.updated_at > r.updated_at]_vars

\* C6 as amended: a successful Update(contact) of a row that is in the table
\* leaves every row with another id unchanged and sets the row's updated_at
\* to the clock's reading at the call (which need not be later than the value
\* it replaces).
C6_UpdateFrame ==
    [][ret'.op = "Update" /\ ret'.err = nil /\ RowOf(table, ret'.arg) # {} =>
          /\ OthersUnchanged(ret'.arg, table, table')
          /\ \A q \in RowOf(table', ret'.arg) : q.updated_at = now']_vars

\* Update has rewritten one row by its UPDATE statement, in a table of two
\* rows
C6_Witness ==
    /\ ret.op = "Update" /\ ret.err = nil
    /\ db.stmt = "UPDATE" /\ db.n = 1
    /\ Cardinality(table) = 2
    /\ \E r \in RowOf(table, ret.arg) : r.full_name = Bob.FullName

\* C7: Delete(c) of a row that is already soft-deleted returns nil or
\* ErrRecordNotFound when the store answers, and in every case leaves the
\* table as it was: the row present, its deleted_at unchanged.
C7_DeleteTwice ==
    [][ret'.op = "Delete" /\ Deleted(RowOf(table, ret'.arg)) # {} =>
          /\ table' = table
          /\ Answered(ret') => ret'.err \in {nil, ErrRecordNotFound}]_vars

\* Delete has returned nil with RowsAffected = 0 for a row that is in the
\* table, soft-deleted at an earlier reading of the clock
C7_Witness ==
    /\ ret.op = "Delete" /\ ret.err = nil /\ db.n = 0
    /\ \E r \in RowOf(table, ret.arg) : r.deleted_at # NULL /\ r.deleted_at < now

\* C8: every call returns the Error of its last statement as it is; a Create
\* that fails leaves the table as it was; a FindAll or FindByID that fails
\* returns no record.
C8_ErrorsAreReturned ==
    [][/\ ret'.err = db'.err
       /\ ret'.op = "Create" /\ ret'.err # nil => table' = table
       /\ ret'.op \in {"FindAll", "FindByID"} /\ ret'.err # nil => ret'.rows = {}]_vars

\* Create has returned the store's duplicate-key error
C8_Witness ==
    /\ ret.op = "Create" /\ ret.err = ErrDuplicatedKey
    /\ db.stmt = "INSERT" /\ db.err = ErrDuplicatedKey
    /\ RowOf(table, ret.arg) # {}

\* C10: once a row's deleted_at is non-null it stays non-null, whatever is
\* called next.
C10_DeletedStaysDeleted ==
    [][\A r \in Deleted(table) : Deleted(RowOf(table', r.id)) # {}]_vars

AllDone == pc # <<>> /\ \A p \in Procs : pc[p] = "done"

\* C9: when calls on pairwise different ids have run interleaved, the table
\* is the one that running them one after the other leaves, in any order
\* (user columns and nullness of deleted_at compared).
C9_Independent ==
    AllDone => \A o \in Orders : Visible(table) = Visible(OneAfterTheOther(start, o))

\* all calls have returned, and between the UPDATE and the upsert of one
\* caller's Save, which wrote its row, the store ran the Delete of another
\* caller, which soft-deleted that caller's row
C9_Witness ==
    /\ AllDone
    /\ \E p \in passed, q \in Procs :
          /\ calls[p].op = "Update" /\ calls[q].op = "Delete"
          /\ RowOf(start, p) = {} /\ RowOf(table, p) # {}
          /\ Deleted(RowOf(start, q)) = {} /\ Deleted(RowOf(table, q)) # {}

====
